---- MODULE Spec2Model ----
(***************************************************************************)
(* Model of the double-helix visualisation of src/src/App.jsx: the         *)
(* geometry factory inside DNAHelix's useMemo, the mesh list DNAHelix      *)
(* renders from it, and the Rotator's per-frame callback, driven by the    *)
(* component lifecycle (mount, re-render, frame tick, unmount).            *)
(*                                                                         *)
(* Numbers are exact: a JavaScript number is modelled by the real it       *)
(* denotes, as an extended rational [n, d] (d = 0 encodes Infinity,        *)
(* -Infinity and NaN), and a coordinate cos(angle) * radius as a rational  *)
(* coefficient times the cosine of a first-quadrant grid angle.  The       *)
(* rounding of IEEE doubles is not modelled.                               *)
(***************************************************************************)
EXTENDS Integers, Sequences, FiniteSets, TLC

(***************************************************************************)
(* Extended rationals.                                                     *)
(***************************************************************************)
Abs(x) == IF x < 0 THEN -x ELSE x

Sign(x) == IF x < 0 THEN -1 ELSE IF x = 0 THEN 0 ELSE 1

RECURSIVE GCD(_, _)
GCD(a, b) == IF b = 0 THEN a ELSE GCD(b, a % b)

\* n/d in lowest terms with d >= 0; d = 0 keeps only the sign of n
\* (1/0 = Infinity, -1/0 = -Infinity, 0/0 = NaN).
R(n, d) ==
    IF d = 0 THEN [n |-> Sign(n), d |-> 0]
    ELSE LET g == GCD(Abs(n), Abs(d))
             s == Sign(d)
         IN  [n |-> (s * n) \div g, d |-> (s * d) \div g]

NaN == [n |-> 0, d |-> 0]

IsNaN(a) == a.d = 0 /\ a.n = 0

IsFinite(a) == a.d > 0

RMul(a, b) == R(a.n * b.n, a.d * b.d)

RDiv(a, b) ==
    IF b.n < 0 THEN R(-(a.n * b.d), a.d * (-b.n)) ELSE R(a.n * b.d, a.d * b.n)

RNeg(a) == [n |-> -a.n, d |-> a.d]

RAdd(a, b) ==
    IF a.d = 0 /\ b.d = 0
    THEN (IF a.n = b.n THEN a ELSE NaN)
    ELSE R(a.n * b.d + b.n * a.d, a.d * b.d)

RSub(a, b) == RAdd(a, RNeg(b))

\* a < b and a <= b; false when either side is NaN, as in JavaScript
RLess(a, b) ==
    /\ ~IsNaN(a) /\ ~IsNaN(b)
    /\ a # b
    /\ IF a.d = 0 THEN a.n < 0
       ELSE IF b.d = 0 THEN b.n > 0
       ELSE a.n * b.d < b.n * a.d

RLeq(a, b) == ~IsNaN(a) /\ ~IsNaN(b) /\ (a = b \/ RLess(a, b))

RAbs(a) == [n |-> Abs(a.n), d |-> a.d]

\* Math.floor of a finite rational
RFloor(a) == a.n \div a.d

(***************************************************************************)
(* Cosines and sines of angles on the grid of 4 * ppt points per turn.     *)
(* A value c * cos(k * 2pi / (4 * ppt)) with 0 <= k <= ppt is the record   *)
(* [c, k]; zero is [0, 0].                                                 *)
(***************************************************************************)
FullTurn(ppt) == 4 * ppt

Quarter(ppt) == ppt

Zero == [c |-> R(0, 1), k |-> 0]

T(c, k) == IF c.n = 0 /\ c.d # 0 THEN Zero ELSE [c |-> c, k |-> k]

\* Math.cos(u), u in grid units
MathCos(u, ppt) ==
    LET m == u % FullTurn(ppt)
        q == Quarter(ppt)
    IN  IF m < q THEN T(R(1, 1), m)
        ELSE IF m = q THEN Zero
        ELSE IF m <= 2 * q THEN T(R(-1, 1), 2 * q - m)
        ELSE IF m < 3 * q THEN T(R(-1, 1), m - 2 * q)
        ELSE IF m = 3 * q THEN Zero
        ELSE T(R(1, 1), 4 * q - m)

\* Math.sin(u) = cos(u - pi/2)
MathSin(u, ppt) == MathCos(u + 3 * Quarter(ppt), ppt)

\* Math.PI in grid units
MathPI(ppt) == 2 * Quarter(ppt)

TScale(t, r) == T(RMul(t.c, r), t.k)

TNeg(t) == T(RNeg(t.c), t.k)

\* sum of two coordinates; a sum of cosines of two different grid angles has
\* no single-term form and is left unrepresented (the code never forms one)
TAdd(a, b) ==
    IF a = Zero THEN b
    ELSE IF b = Zero THEN a
    ELSE IF a.k = b.k THEN T(RAdd(a.c, b.c), a.k)
    ELSE [c |-> NaN, k |-> 0]

TSub(a, b) == TAdd(a, TNeg(b))

(***************************************************************************)
(* THREE.Vector3, as far as DNAHelix uses it.                              *)
(***************************************************************************)
Vector3(x, y, z) == [x |-> x, y |-> y, z |-> z]

addVectors(a, b) == Vector3(TAdd(a.x, b.x), RAdd(a.y, b.y), TAdd(a.z, b.z))

subVectors(a, b) == Vector3(TSub(a.x, b.x), RSub(a.y, b.y), TSub(a.z, b.z))

multiplyScalar(v, s) == Vector3(TScale(v.x, s), RMul(v.y, s), TScale(v.z, s))

\* x^2 + z^2 of a horizontal vector, where it is rational:
\* (c cos a)^2 + (c sin a)^2 = c^2, and cos(0) = 1
HorizontalLength(x, z, ppt) ==
    IF x = Zero /\ z = Zero THEN R(0, 1)
    ELSE IF z = Zero /\ x.k = 0 THEN RAbs(x.c)
    ELSE IF x = Zero /\ z.k = 0 THEN RAbs(z.c)
    ELSE IF x # Zero /\ z # Zero /\ RAbs(x.c) = RAbs(z.c) /\ x.k + z.k = Quarter(ppt)
         THEN RAbs(x.c)
    ELSE NaN

\* Vector3.length(): sqrt(x*x + y*y + z*z)
length(v, ppt) ==
    IF IsNaN(v.y) THEN NaN
    ELSE IF v.y.n = 0 THEN HorizontalLength(v.x, v.z, ppt)
    ELSE IF v.x = Zero /\ v.z = Zero THEN RAbs(v.y)
    ELSE NaN

\* Vector3.normalize(): divideScalar(length() || 1)
normalize(v, ppt) ==
    LET len == length(v, ppt)
        by  == IF IsNaN(len) \/ len.n = 0 THEN R(1, 1) ELSE len
    IN  multiplyScalar(v, RDiv(R(1, 1), by))

(***************************************************************************)
(* The geometry factory of DNAHelix (the callback given to useMemo).       *)
(***************************************************************************)
pointsPerTurn == 40

\* variant of angleStep: Math.PI / pointsPerTurn, half the step
angleStepHalved(ppt) == FullTurn(ppt) \div (2 * ppt)

\* angleStep = (Math.PI * 2) / pointsPerTurn, in grid units
angleStep(ppt) == FullTurn(ppt) \div ppt

\* variant of SampleY: the curve is not centred on the origin
SampleYUncentred(i, heightStep, height) == RMul(R(i, 1), heightStep)

\* const y = i * heightStep - height / 2
SampleY(i, heightStep, height) ==
    RSub(RMul(R(i, 1), heightStep), RDiv(height, R(2, 1)))

\* p1 = (cos(angle) * radius, y, sin(angle) * radius)
Strand1Point(i, radius, y, ppt) ==
    LET angle == i * angleStep(ppt)
    IN  Vector3(TScale(MathCos(angle, ppt), radius), y,
                TScale(MathSin(angle, ppt), radius))

\* variant of Strand2Point: the second strand a quarter turn ahead, not half a turn
Strand2PointQuarterTurn(i, radius, y, ppt) ==
    LET angle == i * angleStep(ppt)
    IN  Vector3(TScale(MathCos(angle + Quarter(ppt), ppt), radius), y,
                TScale(MathSin(angle + Quarter(ppt), ppt), radius))

\* p2 = (cos(angle + Math.PI) * radius, y, sin(angle + Math.PI) * radius)
Strand2Point(i, radius, y, ppt) ==
    LET angle == i * angleStep(ppt)
    IN  Vector3(TScale(MathCos(angle + MathPI(ppt), ppt), radius), y,
                TScale(MathSin(angle + MathPI(ppt), ppt), radius))

\* variant of IsRungIndex: the rungs one sample early (3, 7, 11, ...)
IsRungIndexShifted(i) == (i + 1) % 4 = 0

\* variant of IsRungIndex: no rung at index 0
IsRungIndexSkippingZero(i) == i > 0 /\ i % 4 = 0

\* if (i % 4 === 0)
IsRungIndex(i) == i % 4 = 0

\* variant of LoopCond: i < totalPoints
LoopCondExclusive(i, totalPoints) == RLess(R(i, 1), totalPoints)

\* the loop condition i <= totalPoints
LoopCond(i, totalPoints) == RLeq(R(i, 1), totalPoints)

\* for (let i = 0; i <= totalPoints; i++) { ... }; at iteration i the arrays
\* hold i points, and reading that length first keeps the nesting of the
\* unevaluated accumulators flat for long helices
RECURSIVE HelixLoop(_, _, _, _, _, _, _)
HelixLoop(i, acc, totalPoints, heightStep, radius, height, ppt) ==
    IF ~(Len(acc.b1Points) = i /\ LoopCond(i, totalPoints)) THEN acc
    ELSE LET y  == SampleY(i, heightStep, height)
             p1 == Strand1Point(i, radius, y, ppt)
             p2 == Strand2Point(i, radius, y, ppt)
             next == [b1Points |-> Append(acc.b1Points, p1),
                      b2Points |-> Append(acc.b2Points, p2),
                      rungData |-> IF IsRungIndex(i)
                                   THEN Append(acc.rungData, [start |-> p1, end |-> p2])
                                   ELSE acc.rungData]
         IN  HelixLoop(i + 1, next, totalPoints, heightStep, radius, height, ppt)

\* new THREE.CatmullRomCurve3(points): the curve keeps the points it is given
CatmullRomCurve3(points) == [points |-> points]

BuildGeometry(turns, radius, height, ppt) ==
    LET totalPoints == RMul(turns, R(ppt, 1))
        heightStep  == RDiv(height, totalPoints)
        out == HelixLoop(0, [b1Points |-> <<>>, b2Points |-> <<>>, rungData |-> <<>>],
                         totalPoints, heightStep, radius, height, ppt)
    IN  [backbone1Curve |-> CatmullRomCurve3(out.b1Points),
         backbone2Curve |-> CatmullRomCurve3(out.b2Points),
         rungs |-> out.rungData]

(***************************************************************************)
(* What DNAHelix returns: two tube meshes and one cylinder mesh per rung.  *)
(***************************************************************************)
\* <tubeGeometry args={[curve, 100, 0.15, 8, false]} />
TubeMesh(curve) ==
    [type |-> "tube", curve |-> curve, tubularSegments |-> 100,
     radius |-> R(3, 20), radialSegments |-> 8, closed |-> FALSE]

\* variant of RungMesh: start + end, not halved, as the position
RungMeshUnhalved(rung, index, ppt) ==
    LET mid == addVectors(rung.start, rung.end)
        direction == subVectors(rung.end, rung.start)
        len == length(direction, ppt)
        orientation == [vFrom |-> Vector3(Zero, R(1, 1), Zero),
                        vTo |-> normalize(direction, ppt)]
    IN  [type |-> "cylinder", key |-> index, position |-> mid,
         quaternion |-> orientation, radiusTop |-> R(2, 25),
         radiusBottom |-> R(2, 25), height |-> len, radialSegments |-> 8]

\* the body of rungs.map((rung, index) => ...)
RungMesh(rung, index, ppt) ==
    LET mid == multiplyScalar(addVectors(rung.start, rung.end), R(1, 2))
        direction == subVectors(rung.end, rung.start)
        len == length(direction, ppt)
        orientation == [vFrom |-> Vector3(Zero, R(1, 1), Zero),
                        vTo |-> normalize(direction, ppt)]
    IN  [type |-> "cylinder", key |-> index, position |-> mid,
         quaternion |-> orientation, radiusTop |-> R(2, 25),
         radiusBottom |-> R(2, 25), height |-> len, radialSegments |-> 8]

\* variant of RenderHelix: the rungs are rendered last to first
RenderHelixReversed(geo, ppt) ==
    <<TubeMesh(geo.backbone1Curve), TubeMesh(geo.backbone2Curve)>>
    \o [j \in 1..Len(geo.rungs) |->
            RungMesh(geo.rungs[Len(geo.rungs) + 1 - j], j - 1, ppt)]

\* the children of the <group> DNAHelix returns, in order
RenderHelix(geo, ppt) ==
    <<TubeMesh(geo.backbone1Curve), TubeMesh(geo.backbone2Curve)>>
    \o [j \in 1..Len(geo.rungs) |-> RungMesh(geo.rungs[j], j - 1, ppt)]

(***************************************************************************)
(* State.                                                                  *)
(***************************************************************************)
VARIABLES
    phase,        \* "idle" before the first mount, "mounted", "torn" after unmount
    props,        \* the props of the last render of DNAHelix: [turns, radius, height]
    memoDeps,     \* the dependency array useMemo last ran its factory for, <<>> if none
    memo,         \* the value useMemo holds: the geometry
    children,     \* the meshes of the last render of DNAHelix
    groupRef,     \* groupRef.current: "group" while the inner group is attached
    spinY,        \* rotation.y of the inner group object
    tilt,         \* rotation of the outer group, in units of pi
    disposed,     \* the inner group object has been removed from the scene
    buildCount,   \* history: how many times the geometry factory has run
    elapsed,      \* history: sum of the deltas of the frame ticks since the mount
    lastBuild,    \* history: dependencies and result of the latest factory run
    repeatBuild,  \* history: the latest factory run had the dependencies of the one before
    lastOp,       \* history: the operation that led to this state
    innerXZ,      \* rotation.x and rotation.z of the inner group object
    parent,       \* the scene graph Rotator renders: the parent of each node
    projects,     \* the project records Portfolio renders: [id, github_url]
    activeProject, \* Portfolio's state: the id of the expanded project, or -1
    cards,        \* what each ProjectCard shows: [expanded, indicators]
    opened,       \* history: the URL last given to window.open, "" if none
    clicked,      \* history: the id of the card last clicked, -1 if none
    call,         \* the arguments of the latest direct run of the geometry builder
    result        \* what that run returned

helixVars == <<phase, props, memoDeps, memo, children, groupRef, spinY, tilt, disposed,
               buildCount, elapsed, lastBuild, repeatBuild, innerXZ, parent>>

pageVars == <<projects, activeProject, cards, opened, clicked>>

buildVars == <<call, result>>

vars == <<helixVars, pageVars, buildVars, lastOp>>

\* bounds of the model
MaxTurnsNum == 9
TurnsDen == 80
MaxRadius == 2
MaxHeight == 1
MaxDeltaNum == 2
DeltaDen == 60
MaxElapsedNum == 3
MaxBuilds == 3

\* the configurations a render may pass: turns = q / TurnsDen, q from -1
Configs ==
    [turns : {R(q, TurnsDen) : q \in -1..MaxTurnsNum},
     radius : {R(r, 1) : r \in 0..MaxRadius},
     height : {R(h, 1) : h \in 0..MaxHeight}]

Deltas == {R(k, DeltaDen) : k \in 1..MaxDeltaNum}

None == [n |-> "none"]

\* <DNAHelix turns={3} height={35} radius={3} /> in SystemIntegrationViz
CallSiteConfig == [turns |-> R(3, 1), radius |-> R(3, 1), height |-> R(35, 1)]

(***************************************************************************)
(* The project cards of Portfolio.                                         *)
(***************************************************************************)
\* the id and github_url of the entries of Portfolio's projects array
ActualProjects ==
    <<[id |-> 0, github_url |-> "Private till completed"],
      [id |-> 1, github_url |-> "Private"],
      [id |-> 2, github_url |-> "Private"],
      [id |-> 3, github_url |-> "Private"]>>

NumProjects == Len(ActualProjects)

\* the values a project's github_url is drawn from ("" stands for every
\* falsy value, the last one for the URL of a public repository)
UrlValues ==
    {"Private", "Private till completed", "", "https://github.com/ayushm-75/project"}

\* the project lists a Portfolio may be given: the ids of the code, any URLs
ProjectLists ==
    {[j \in 1..NumProjects |-> [id |-> ActualProjects[j].id, github_url |-> u[j]]] :
        u \in [1..NumProjects -> UrlValues]}

\* variant of GithubState: "Private till completed" not told apart from a URL
GithubStateWithoutLocked(url) ==
    IF url = "Private" THEN "private"
    ELSE IF url # "" THEN "public"
    ELSE "none"

\* const githubState = ... in ProjectCard
GithubState(url) ==
    IF url = "Private" THEN "private"
    ELSE IF url = "Private till completed" THEN "locked"
    ELSE IF url # "" THEN "public"
    ELSE "none"

\* what one ProjectCard shows: the three {expanded && githubState === ...} blocks
ProjectCard(project, expanded) ==
    LET githubState == GithubState(project.github_url)
    IN  [expanded |-> expanded,
         indicators |->
            (IF expanded /\ githubState = "public" THEN {"link"} ELSE {})
            \cup (IF expanded /\ githubState = "locked" THEN {"locked"} ELSE {})
            \cup (IF expanded /\ githubState = "private" THEN {"private"} ELSE {})]

\* projects.map((p) => <ProjectCard project={p} expanded={activeProject === p.id} />)
RenderCards(ps, active) ==
    [j \in 1..Len(ps) |-> ProjectCard(ps[j], active = ps[j].id)]

\* variant of Toggle: a click on the expanded card leaves it expanded
ToggleWithoutCollapse(active, id) == id

\* activeProject === p.id ? -1 : p.id
Toggle(active, id) == IF active = id THEN -1 ELSE id

Init ==
    /\ phase = "idle"
    /\ props = None
    /\ memoDeps = <<>>
    /\ memo = None
    /\ children = <<>>
    /\ groupRef = "null"
    /\ spinY = R(0, 1)
    /\ tilt = <<R(0, 1), R(0, 1), R(0, 1)>>
    /\ disposed = FALSE
    /\ buildCount = 0
    /\ elapsed = R(0, 1)
    /\ lastBuild = None
    /\ repeatBuild = FALSE
    /\ lastOp = "init"
    /\ innerXZ = <<R(0, 1), R(0, 1)>>
    /\ parent = None
    /\ projects = ActualProjects
    /\ activeProject = 0
    /\ cards = RenderCards(ActualProjects, 0)
    /\ opened = ""
    /\ clicked = -1
    /\ call = None
    /\ result = None

\* variant of DepsChanged: useMemo without a usable dependency array
DepsAlwaysChanged(old, new) == TRUE

\* useMemo's comparison of the dependency arrays (Object.is on each entry)
DepsChanged(old, new) ==
    \/ Len(old) # Len(new)
    \/ \E j \in 1..Len(new) : old[j] # new[j]

\* the dependency array [turns, radius, height]
DepsOf(c) == <<c.turns, c.radius, c.height>>

\* the geometry of every configuration (the factory is a function of the
\* three props and the constant pointsPerTurn alone), tabulated once
GeometryTable ==
    {[config |-> c,
      geometry |-> BuildGeometry(c.turns, c.radius, c.height, pointsPerTurn)] :
        c \in Configs \cup {CallSiteConfig}}

\* variant of Factory: rungData lives outside the factory and is never cleared
FactoryWithSharedRungs(c) ==
    LET g == (CHOOSE e \in GeometryTable : e.config = c).geometry
    IN  IF lastBuild = None THEN g
        ELSE [g EXCEPT !.rungs = lastBuild.geo.rungs \o g.rungs]

\* the factory useMemo runs
Factory(c) == (CHOOSE e \in GeometryTable : e.config = c).geometry

\* the meshes of every tabulated geometry (the JSX is a function of the
\* memoised geometry alone), tabulated once
MeshTable ==
    {[geometry |-> e.geometry, meshes |-> RenderHelix(e.geometry, pointsPerTurn)] :
        e \in GeometryTable}

\* the JSX DNAHelix returns for the geometry geo
Meshes(geo) ==
    IF \E e \in MeshTable : e.geometry = geo
    THEN (CHOOSE e \in MeshTable : e.geometry = geo).meshes
    ELSE RenderHelix(geo, pointsPerTurn)

\* one render of DNAHelix with props c: useMemo, then the JSX
RenderDNAHelix(c) ==
    LET rebuild == DepsChanged(memoDeps, DepsOf(c))
        geo == IF rebuild THEN Factory(c) ELSE memo
    IN  /\ rebuild => buildCount < MaxBuilds
        /\ props' = c
        /\ memoDeps' = IF rebuild THEN DepsOf(c) ELSE memoDeps
        /\ memo' = geo
        /\ children' = Meshes(memo')
        /\ buildCount' = IF rebuild THEN buildCount + 1 ELSE buildCount
        /\ lastBuild' = IF rebuild THEN [deps |-> DepsOf(c), geo |-> memo']
                        ELSE lastBuild
        /\ repeatBuild' = IF rebuild
                          THEN lastBuild # None /\ lastBuild.deps = DepsOf(c)
                          ELSE repeatBuild

\* variant of OuterRotation: the tilt about the Y axis
OuterRotationAboutY == <<R(0, 1), R(1, 6), R(0, 1)>>

\* <group rotation={[0, 0, Math.PI / 6]}>, in units of pi
OuterRotation == <<R(0, 1), R(0, 1), R(1, 6)>>

\* the nesting of the JSX Rotator returns: the outer group holds the inner
\* group, the inner group holds the children (the helix)
RotatorTree == [outer |-> "canvas", inner |-> "outer", helix |-> "inner"]

\* SystemIntegrationViz mounts <Rotator><DNAHelix .../></Rotator>: a fresh
\* component instance (nothing memoised, new group objects), its first render,
\* then the refs are attached
Mount(c) ==
    /\ phase \in {"idle", "torn"}
    /\ memoDeps = <<>>
    /\ RenderDNAHelix(c)
    /\ phase' = "mounted"
    /\ groupRef' = "group"
    /\ spinY' = R(0, 1)
    /\ tilt' = OuterRotation
    /\ disposed' = FALSE
    /\ elapsed' = R(0, 1)
    /\ innerXZ' = <<R(0, 1), R(0, 1)>>
    /\ parent' = RotatorTree
    /\ lastOp' = "mount"
    /\ UNCHANGED <<pageVars, buildVars>>

\* a re-render of the mounted tree with props c (equal to the last ones or not)
Rerender(c) ==
    /\ phase = "mounted"
    /\ RenderDNAHelix(c)
    /\ tilt' = OuterRotation
    /\ parent' = RotatorTree
    /\ lastOp' = "render"
    /\ UNCHANGED <<phase, groupRef, spinY, innerXZ, disposed, elapsed>>
    /\ UNCHANGED <<pageVars, buildVars>>

\* variant of useFrameCallback: a fixed step per frame, delta ignored
useFrameCallbackPerFrame(delta) ==
    /\ IF groupRef # "null"
       THEN spinY' = RSub(spinY, R(1, 2))
       ELSE spinY' = spinY
    /\ UNCHANGED innerXZ

\* variant of useFrameCallback: no check of groupRef.current
useFrameCallbackUnguarded(delta) ==
    /\ spinY' = RSub(spinY, RMul(delta, R(1, 2)))
    /\ UNCHANGED innerXZ

\* variant of useFrameCallback: += instead of -=
useFrameCallbackForward(delta) ==
    /\ IF groupRef # "null"
       THEN spinY' = RAdd(spinY, RMul(delta, R(1, 2)))
       ELSE spinY' = spinY
    /\ UNCHANGED innerXZ

\* the callback Rotator gives to useFrame
useFrameCallback(delta) ==
    /\ IF groupRef # "null"
       THEN spinY' = RSub(spinY, RMul(delta, R(1, 2)))
       ELSE spinY' = spinY
    /\ UNCHANGED innerXZ

\* a frame of the render loop while the Rotator is mounted
FrameTick(delta) ==
    /\ phase = "mounted"
    /\ RLeq(RAdd(elapsed, delta), R(MaxElapsedNum, DeltaDen))
    /\ useFrameCallback(delta)
    /\ elapsed' = RAdd(elapsed, delta)
    /\ lastOp' = "tick"
    /\ UNCHANGED <<phase, props, memoDeps, memo, children, groupRef, tilt, disposed,
                   buildCount, lastBuild, repeatBuild, parent>>
    /\ UNCHANGED <<pageVars, buildVars>>

\* the Rotator is unmounted: React clears the ref and drops the component's
\* hook state, the groups leave the scene
Unmount ==
    /\ phase = "mounted"
    /\ phase' = "torn"
    /\ groupRef' = "null"
    /\ disposed' = TRUE
    /\ memoDeps' = <<>>
    /\ memo' = None
    /\ children' = <<>>
    /\ parent' = None
    /\ lastOp' = "unmount"
    /\ UNCHANGED <<props, spinY, innerXZ, tilt, buildCount, elapsed, lastBuild,
                   repeatBuild>>
    /\ UNCHANGED <<pageVars, buildVars>>

\* the callback called once more after the unmount (a dispatch already under way)
LateTick(delta) ==
    /\ phase = "torn"
    /\ lastOp # "latetick"
    /\ useFrameCallback(delta)
    /\ lastOp' = "latetick"
    /\ UNCHANGED <<phase, props, memoDeps, memo, children, groupRef, tilt, disposed,
                   buildCount, elapsed, lastBuild, repeatBuild, parent>>
    /\ UNCHANGED <<pageVars, buildVars>>

Next ==
    \/ \E c \in Configs : Mount(c)
    \/ \E c \in Configs : Rerender(c)
    \/ \E d \in Deltas : FrameTick(d)
    \/ Unmount
    \/ \E d \in Deltas : LateTick(d)

Spec == Init /\ [][Next]_vars

(***************************************************************************)
(* The page: Portfolio with its project cards and the mounted canvas.      *)
(***************************************************************************)
\* the state after Portfolio's first render: the four cards with project 0
\* expanded, and <Rotator><DNAHelix turns={3} height={35} radius={3} /></Rotator>
InitPage ==
    /\ phase = "mounted"
    /\ props = CallSiteConfig
    /\ memoDeps = DepsOf(CallSiteConfig)
    /\ memo = Factory(CallSiteConfig)
    /\ children = Meshes(memo)
    /\ groupRef = "group"
    /\ spinY = R(0, 1)
    /\ tilt = OuterRotation
    /\ disposed = FALSE
    /\ buildCount = 1
    /\ elapsed = R(0, 1)
    /\ lastBuild = [deps |-> memoDeps, geo |-> memo]
    /\ repeatBuild = FALSE
    /\ lastOp = "mount"
    /\ innerXZ = <<R(0, 1), R(0, 1)>>
    /\ parent = RotatorTree
    /\ projects \in ProjectLists
    /\ activeProject = 0
    /\ cards = RenderCards(projects, activeProject)
    /\ opened = ""
    /\ clicked = -1
    /\ call = None
    /\ result = None

\* a click on card j: onClick={() => setActiveProject(...)}, then Portfolio
\* renders again: the cards, and the canvas with the props it had
ClickCard(j) ==
    /\ phase = "mounted"
    /\ activeProject' = Toggle(activeProject, projects[j].id)
    /\ cards' = RenderCards(projects, activeProject')
    /\ clicked' = projects[j].id
    /\ RenderDNAHelix(props)
    /\ tilt' = OuterRotation
    /\ parent' = RotatorTree
    /\ lastOp' = "click"
    /\ UNCHANGED <<phase, groupRef, spinY, innerXZ, disposed, elapsed>>
    /\ UNCHANGED <<projects, opened, buildVars>>

\* a click on the GitHub button of card j, when the card shows it:
\* e.stopPropagation(); window.open(project.github_url, "_blank")
ClickGithub(j) ==
    /\ phase = "mounted"
    /\ "link" \in cards[j].indicators
    /\ opened' = projects[j].github_url
    /\ lastOp' = "open"
    /\ UNCHANGED <<helixVars, projects, activeProject, cards, clicked, buildVars>>

NextPage ==
    \/ \E j \in 1..NumProjects : ClickCard(j)
    \/ \E j \in 1..NumProjects : ClickGithub(j)

SpecPage == InitPage /\ [][NextPage]_vars

(***************************************************************************)
(* The useMemo factory on its own: the loop of lines 84-109 applied to one *)
(* configuration, with the sampling density of line 76 as an input so that *)
(* the factory can be followed on a helix of a few points.                 *)
(***************************************************************************)
\* the densities the factory is applied with: a coarse one and the code's own
BuildDensities == {4, pointsPerTurn}

\* the configurations the factory is applied to
BuildInputs ==
    Configs \cup [turns : {R(1, 1), R(2, 1)}, radius : {R(1, 1)},
                  height : {R(0, 1), R(1, 1)}]

InitBuild ==
    /\ phase = "idle"
    /\ props = None
    /\ memoDeps = <<>>
    /\ memo = None
    /\ children = <<>>
    /\ groupRef = "null"
    /\ spinY = R(0, 1)
    /\ tilt = <<R(0, 1), R(0, 1), R(0, 1)>>
    /\ disposed = FALSE
    /\ buildCount = 0
    /\ elapsed = R(0, 1)
    /\ lastBuild = None
    /\ repeatBuild = FALSE
    /\ lastOp = "init"
    /\ innerXZ = <<R(0, 1), R(0, 1)>>
    /\ parent = None
    /\ projects = ActualProjects
    /\ activeProject = 0
    /\ cards = RenderCards(ActualProjects, 0)
    /\ opened = ""
    /\ clicked = -1
    /\ call \in [config : BuildInputs, ppt : BuildDensities]
    /\ result = None

\* one run of the factory on the configuration of the call
Build ==
    /\ result = None
    /\ result' = BuildGeometry(call.config.turns, call.config.radius,
                               call.config.height, call.ppt)
    /\ lastOp' = "build"
    /\ UNCHANGED <<helixVars, pageVars, call>>

NextBuild == Build

SpecBuild == InitBuild /\ [][NextBuild]_vars

(***************************************************************************)
(* State functions used by the properties.                                 *)
(***************************************************************************)
Positive(a) == a.d > 0 /\ a.n > 0

\* every one of turns, radius and height is a positive number
ValidConfig(c) == Positive(c.turns) /\ Positive(c.radius) /\ Positive(c.height)

HasGeometry == memo # None

strand1 == memo.backbone1Curve.points

strand2 == memo.backbone2Curve.points

\* turns * pointsPerTurn of the rendered configuration
TotalPointsOf(c) == RMul(c.turns, R(pointsPerTurn, 1))

HalfHeightOf(c) == RDiv(c.height, R(2, 1))

(***************************************************************************)
(* Properties.                                                             *)
(***************************************************************************)

\* C1: a configuration with turns, radius or height non-positive is rejected:
\* the builder never hands a geometry to the renderer for it.
C1_InvalidConfigurationRejected == HasGeometry => ValidConfig(props)

\* C2: for a valid configuration both strands have floor(turns * 40) + 1
\* sample points, also when turns * 40 is not an integer.
C2_PointCount ==
    (HasGeometry /\ ValidConfig(props)) =>
        /\ Len(strand1) = RFloor(TotalPointsOf(props)) + 1
        /\ Len(strand2) = Len(strand1)

C2_Witness ==
    /\ HasGeometry /\ ValidConfig(props)
    /\ TotalPointsOf(props).d # 1
    /\ Len(strand1) >= 3

\* C3: for a valid configuration the number of rungs is
\* floor(totalPoints / 4) + 1, one for each sampled index divisible by 4.
C3_RungCount ==
    (HasGeometry /\ ValidConfig(props)) =>
        /\ Len(memo.rungs) = RFloor(RDiv(TotalPointsOf(props), R(4, 1))) + 1
        /\ Len(memo.rungs) = Cardinality({i \in 0..(Len(strand1) - 1) : i % 4 = 0})

C3_Witness ==
    /\ HasGeometry /\ ValidConfig(props)
    /\ Len(memo.rungs) >= 2
    /\ TotalPointsOf(props).d # 1

\* strand1[i].y is strictly increasing in i
StrictlyIncreasingY(s) ==
    \A i \in 1..(Len(s) - 1) : RLess(s[i].y, s[i + 1].y)

\* C4 as stated: y strictly increasing, first sample at -height/2 and last
\* sample at +height/2 exactly, for every positive turns value.
C4_SpansExactly ==
    (HasGeometry /\ ValidConfig(props)) =>
        /\ StrictlyIncreasingY(strand1)
        /\ strand1[1].y = RNeg(HalfHeightOf(props))
        /\ strand1[Len(strand1)].y = HalfHeightOf(props)

\* C4 amended: y strictly increasing, first sample at -height/2; the last
\* sample is at floor(T) * height / T - height/2 for T = turns * 40, which is
\* never above +height/2 and equals it exactly when T is an integer.
C4_SpansUpToLastSample ==
    (HasGeometry /\ ValidConfig(props)) =>
        LET tp   == TotalPointsOf(props)
            last == strand1[Len(strand1)].y
        IN  /\ StrictlyIncreasingY(strand1)
            /\ strand1[1].y = RNeg(HalfHeightOf(props))
            /\ last = RSub(RDiv(RMul(R(RFloor(tp), 1), props.height), tp),
                           HalfHeightOf(props))
            /\ RLeq(last, HalfHeightOf(props))
            /\ (last = HalfHeightOf(props)) <=> (tp.d = 1)

C4_Witness ==
    /\ HasGeometry /\ ValidConfig(props)
    /\ TotalPointsOf(props).d # 1
    /\ Len(strand1) >= 3
    /\ RLess(strand1[Len(strand1)].y, HalfHeightOf(props))

\* C5: at every sample index the two strand points have the same y, both are
\* at distance radius from the axis, and strand 2 is diametrically opposite
\* strand 1 (x2 = -x1, z2 = -z1).
C5_Opposition ==
    (HasGeometry /\ ValidConfig(props)) =>
        /\ Len(strand1) = Len(strand2)
        /\ \A i \in 1..Len(strand1) :
              LET p1 == strand1[i]
                  p2 == strand2[i]
              IN  /\ p1.y = p2.y
                  /\ HorizontalLength(p1.x, p1.z, pointsPerTurn) = props.radius
                  /\ HorizontalLength(p2.x, p2.z, pointsPerTurn) = props.radius
                  /\ p2.x = TNeg(p1.x)
                  /\ p2.z = TNeg(p1.z)

C5_Witness ==
    /\ HasGeometry /\ ValidConfig(props)
    /\ props.radius = R(2, 1)
    /\ \E i \in 1..Len(strand1) : strand1[i].x # Zero /\ strand1[i].z # Zero
    /\ \E i \in 1..Len(strand1) : strand1[i].z = Zero

\* C6: from angle 0 the spin angle after ticks d1..dn is -0.5 * (d1 + ... + dn):
\* it depends on the elapsed time alone, not on how it is split into frames.
C6_RotationAccumulation == spinY = RNeg(RMul(R(1, 2), elapsed))

C6_Witness ==
    /\ phase = "mounted" /\ lastOp = "tick"
    /\ elapsed = R(MaxElapsedNum, DeltaDen)
    /\ spinY = RNeg(RMul(R(1, 2), elapsed))

\* C7: once the Rotator is unmounted no callback changes the spin angle of the
\* disposed group.
C7_NoUpdateAfterTeardown == [][(disposed /\ disposed') => spinY' = spinY]_vars

C7_Witness ==
    /\ phase = "torn" /\ disposed /\ lastOp = "latetick"
    /\ spinY # R(0, 1)

\* C8: the geometry factory runs only when turns, radius or height changed by
\* value (or on the first render): ticks and re-renders with an unchanged
\* configuration never run it, and a tick never changes the geometry.
C8_BuildOnlyOnConfigChange ==
    [][/\ (buildCount' # buildCount) =>
              (buildCount' = buildCount + 1 /\ DepsChanged(memoDeps, memoDeps'))
       /\ (lastOp' = "render" /\ props' = props) =>
              (buildCount' = buildCount /\ memo' = memo)
       /\ (lastOp' \in {"tick", "latetick"}) =>
              (buildCount' = buildCount /\ memo' = memo /\ children' = children)]_vars

C8_Witness ==
    /\ phase = "mounted" /\ lastOp = "render"
    /\ buildCount = 1
    /\ ValidConfig(props)
    /\ elapsed # R(0, 1)

\* C9: the rendered group holds exactly two strand meshes, then exactly one
\* cylinder per rung of the geometry, in the order of the rungs, whatever the
\* number of rungs (zero included).
C9_MeshPerRung ==
    HasGeometry =>
        /\ Len(children) = 2 + Len(memo.rungs)
        /\ children[1].type = "tube" /\ children[1].curve = memo.backbone1Curve
        /\ children[2].type = "tube" /\ children[2].curve = memo.backbone2Curve
        /\ \A j \in 1..Len(memo.rungs) :
              /\ children[2 + j].type = "cylinder"
              /\ children[2 + j].key = j - 1
              /\ children[2 + j].position.y = memo.rungs[j].start.y

C9_Witness ==
    /\ HasGeometry /\ ValidConfig(props)
    /\ Len(memo.rungs) = 2
    /\ Len(children) = 4
    /\ children[3].position.y # children[4].position.y

C11_GithubLinkOnlyWhenPublic ==
    \A j \in 1..NumProjects :
        LET url == projects[j].github_url
        IN  /\ cards[j].expanded <=> (activeProject = projects[j].id)
            /\ ("link" \in cards[j].indicators) <=>
                   (/\ cards[j].expanded
                    /\ url # ""
                    /\ url \notin {"Private", "Private till completed"})
            /\ Cardinality(cards[j].indicators) <= 1

C11_Witness ==
    /\ lastOp = "click"
    /\ \E j \in 1..NumProjects : cards[j].indicators = {"link"}
    /\ \E j \in 1..NumProjects :
          /\ ~cards[j].expanded
          /\ GithubState(projects[j].github_url) = "public"
    /\ \E j \in 1..NumProjects : projects[j].github_url = "Private till completed"

ProjectIds == {projects[j].id : j \in 1..NumProjects}

ExpandedCards == {j \in 1..NumProjects : cards[j].expanded}

\* C17: activeProject is 0 initially and always -1 or a project id; at most one
\* card is expanded, the one whose id is activeProject; a click on the expanded
\* card collapses it (-1), a click on another card expands exactly that card;
\* nothing but a click on a card changes activeProject.
C17_SingleExpandedCard ==
    /\ activeProject = 0
    /\ [](/\ activeProject \in {-1} \cup ProjectIds
          /\ Cardinality(ExpandedCards) <= 1
          /\ ExpandedCards = {j \in 1..NumProjects : projects[j].id = activeProject})
    /\ [][lastOp' = "click" =>
             IF clicked' = activeProject
             THEN activeProject' = -1 /\ ExpandedCards' = {}
             ELSE /\ activeProject' = clicked'
                  /\ ExpandedCards' = {j \in 1..NumProjects : projects[j].id = clicked'}
                  /\ ExpandedCards' \cap ExpandedCards = {}]_vars
    /\ [][activeProject' # activeProject => lastOp' = "click"]_vars

C17_Witness ==
    /\ lastOp = "click"
    /\ activeProject = -1
    /\ clicked = 2
    /\ ExpandedCards = {}

\* the call of the example: one turn, radius 1, height 0, 4 points per turn
ExampleCall == [config |-> [turns |-> R(1, 1), radius |-> R(1, 1), height |-> R(0, 1)],
                ppt |-> 4]

One == T(R(1, 1), 0)

MinusOne == T(R(-1, 1), 0)

\* (cos, sin) of the angles 0, pi/2, pi, 3pi/2, 2pi
QuarterTurnXZ == <<<<One, Zero>>, <<Zero, One>>, <<MinusOne, Zero>>,
                   <<Zero, MinusOne>>, <<One, Zero>>>>

C13_SequentialTicks ==
    /\ spinY = R(0, 1)
    /\ [][lastOp' = "mount" => spinY' = R(0, 1)]_vars
    /\ [][lastOp' = "tick" =>
             /\ spinY' = RSub(spinY, RMul(RSub(elapsed', elapsed), R(1, 2)))
             /\ spinY' # spinY]_vars
    /\ [][spinY' # spinY => lastOp' \in {"tick", "mount"}]_vars

C13_Witness ==
    /\ lastOp = "tick"
    /\ ValidConfig(props)
    /\ elapsed = R(3, DeltaDen)
    /\ spinY = RNeg(RDiv(elapsed, R(2, 1)))

\* C14: the outer group's rotation is (0, 0, pi/6) in every state that has
\* the groups, the outer group is the parent of the spinning inner group, and
\* a tick changes neither the tilt, the nesting, the geometry, the
\* configuration, the meshes nor the inner group's X and Z rotation.
C14_TickOnlySpins ==
    /\ [](phase # "idle" => tilt = <<R(0, 1), R(0, 1), R(1, 6)>>)
    /\ [](phase = "mounted" =>
             /\ parent.inner = "outer"
             /\ parent.helix = "inner"
             /\ parent.outer = "canvas")
    /\ [](innerXZ = <<R(0, 1), R(0, 1)>>)
    /\ [][lastOp' \in {"tick", "latetick"} =>
             UNCHANGED <<tilt, parent, memo, memoDeps, props, children, innerXZ>>]_vars

C14_Witness ==
    /\ lastOp = "tick"
    /\ spinY # R(0, 1)
    /\ tilt = <<R(0, 1), R(0, 1), R(1, 6)>>
    /\ parent = RotatorTree
    /\ Len(children) = 3

\* the rung meshes among the rendered children
RungMeshes == {j \in 1..Len(children) : children[j].type = "cylinder"}

\* C15: a rung whose start equals its end gets no orientation computed from
\* the zero vector and is drawn as a point of radius zero.
C15_ZeroLengthRungGuarded ==
    \A j \in RungMeshes :
        memo.rungs[j - 2].start = memo.rungs[j - 2].end =>
            /\ children[j].quaternion.vTo # Vector3(Zero, R(0, 1), Zero)
            /\ children[j].radiusTop = R(0, 1)
            /\ children[j].radiusBottom = R(0, 1)

\* C16: the k-th rung (k from 0) joins strand1[4k] and strand2[4k]; there is
\* one rung for each sample index divisible by 4 and none for any other index.
C16_RungsJoinSameIndex ==
    result # None =>
        LET s1 == result.backbone1Curve.points
            s2 == result.backbone2Curve.points
        IN  /\ Len(s1) = Len(s2)
            /\ Len(result.rungs) = Cardinality({i \in 0..(Len(s1) - 1) : i % 4 = 0})
            /\ \A k \in 0..(Len(result.rungs) - 1) :
                  /\ 4 * k < Len(s1)
                  /\ result.rungs[k + 1] = [start |-> s1[4 * k + 1], end |-> s2[4 * k + 1]]

C16_Witness ==
    /\ result # None
    /\ call = [config |-> [turns |-> R(2, 1), radius |-> R(1, 1), height |-> R(1, 1)],
               ppt |-> pointsPerTurn]
    /\ Len(result.rungs) = 21
    /\ result.rungs[2].start.y # result.rungs[3].start.y

\* C18: for a valid configuration every rung mesh sits at the midpoint of its
\* rung, which is on the axis (x = 0, z = 0) at the height of the rung's
\* sample, and its cylinder is 2 * radius long.
C18_RungMidpointOnAxis ==
    (HasGeometry /\ ValidConfig(props)) =>
        \A j \in RungMeshes :
            LET rung == memo.rungs[j - 2]
            IN  /\ children[j].position = Vector3(Zero, rung.start.y, Zero)
                /\ rung.start.y = rung.end.y
                /\ rung.start.y = strand1[4 * (j - 3) + 1].y
                /\ children[j].height = RMul(R(2, 1), props.radius)

C18_Witness ==
    /\ HasGeometry /\ ValidConfig(props)
    /\ props.radius = R(2, 1)
    /\ RungMeshes = {3, 4}
    /\ children[4].height = R(4, 1)
    /\ children[4].position.y # R(0, 1)

====
